---- MODULE Spec2Model ----
(***************************************************************************)
(* State-machine model of the project-management backend of               *)
(* src/main/main.py and src/main/auth.py: the users / projects /           *)
(* project_users / documents tables, JWT issue and validation, and the     *)
(* HTTP handlers that read and write them.                                  *)
(*                                                                         *)
(* Time is counted in whole minutes.  An HTTP response is recorded in the  *)
(* variable last together with the request that produced it.               *)
(***************************************************************************)
EXTENDS Integers, Sequences, FiniteSets, TLC

VARIABLES
    users,              \* rows of table users
    projects,           \* rows of table projects
    project_users,      \* rows of table project_users
    documents,          \* rows of table documents
    nextUserId,         \* serial of users.id
    nextProjectId,      \* serial of projects.id
    nextProjectUserId,  \* serial of project_users.id
    nextDocumentId,     \* serial of documents.id
    openSessions,       \* SessionLocal() sessions opened and not yet closed
    last,               \* the last request and its response
    now,                \* datetime.utcnow(), in minutes
    token,              \* the token last handed out (token service runs)
    issued,             \* when, how and for how long that token was asked for
    reqs                \* in-flight invite_user requests (interleaved runs)

vars == <<users, projects, project_users, documents, nextUserId, nextProjectId,
          nextProjectUserId, nextDocumentId, openSessions, last, now, token, issued,
          reqs>>

db == <<users, projects, project_users, documents, nextUserId, nextProjectId,
        nextProjectUserId, nextDocumentId>>

-----------------------------------------------------------------------------
(* Bounds of the model *)

\* projects that create_project may add to the seeded one
MaxCreated == 1
\* documents that upload_document may add
MaxDocuments == 1
\* INSERTs into users that create_user may send
MaxUsers == 2
\* cap on the count of leaked sessions
MaxSessions == 2
\* last instant of the clock, in minutes
MaxTime == 32

-----------------------------------------------------------------------------
(* Program constants *)

\* timedelta(minutes=15), the default lifetime of create_access_token
DEFAULT_EXPIRE_MINUTES == 15
\* timedelta(minutes=30), the lifetime login asks for
LOGIN_EXPIRE_MINUTES == 30
\* timedelta(days=1), the lifetime of generate_jwt, in minutes
GENERATE_JWT_EXPIRE_MINUTES == 1440
\* SQL NULL of a nullable integer foreign key (serial ids start at 1)
NULL == 0

\* the SQL comparison "column = value" of a nullable foreign key: a NULL
\* column equals no value, whatever integer the request carries
references(fk, id) == fk # NULL /\ fk = id

\* Python None, where the value is otherwise a string
None == "None"
\* a payload without the claim, where None is the claim with the value null
Absent == "absent"
SECRET_KEY == "JWT_SECRET"
OTHER_KEY == "other secret"

-----------------------------------------------------------------------------
(* Seed data: setup_test_data of the tests, which leaves active at its      *)
(* column default.  No endpoint writes the column: the runs about a           *)
(* deactivated account take the flag of test@test.com as their input.         *)

TEST_EMAIL == "test@test.com"
USER_EMAIL == "user@test.com"
OWNER_EMAIL == "owner@test.com"
GHOST_EMAIL == "ghost@test.com"

\* werkzeug's generate_password_hash and check_password_hash
generate_password_hash(password) == "pbkdf2:" \o password
check_password_hash(pwhash, password) == pwhash = generate_password_hash(password)

SeedUsers(testActive) ==
    { [id |-> 1, name |-> "Test User", email |-> TEST_EMAIL,
       password |-> generate_password_hash("test"), role |-> "user",
       active |-> testActive],
      [id |-> 2, name |-> "Test User User", email |-> USER_EMAIL,
       password |-> generate_password_hash("test"), role |-> "user",
       active |-> TRUE],
      [id |-> 3, name |-> "Test User Owner", email |-> OWNER_EMAIL,
       password |-> generate_password_hash("test"), role |-> "user",
       active |-> TRUE] }

SeedProjects ==
    { [id |-> 1, name |-> "Test Project", logo |-> None, details |-> None] }

SeedProjectUsers ==
    { [id |-> 1, user_id |-> 3, project_id |-> 1, is_owner |-> TRUE] }

-----------------------------------------------------------------------------
(* Token service *)

\* jwt.encode(to_encode, SECRET_KEY): the claims and the key that signed them
jwt_encode(sub, exp, key) == [sub |-> sub, exp |-> exp, key |-> key]

\* expires_delta is <<>> for None and <<d>> for timedelta(minutes=d);
\* "if expires_delta:" is false for None and for timedelta(0)
create_access_token(sub, expires_delta, t) ==
    LET expire == IF expires_delta # <<>> /\ expires_delta[1] # 0
                  THEN t + expires_delta[1]
                  ELSE t + DEFAULT_EXPIRE_MINUTES
    IN  jwt_encode(sub, expire, SECRET_KEY)

\* auth.py: a payload of id, name, role and exp, without "sub"
generate_jwt(user, t) == jwt_encode(Absent, t + GENERATE_JWT_EXPIRE_MINUTES, SECRET_KEY)

\* jwt.decode(token, SECRET_KEY, algorithms=[ALGORITHM]): the outcomes of the
\* call, TRUE for a payload returned and FALSE for an exception raised.  The
\* signature must verify under the key and the exp claim lie after the
\* instant of the call; a "sub" claim that is null raises InvalidSubjectError
\* from PyJWT 2.10 on and is accepted before it, and no version is pinned
jwt_decode(tok, t) ==
    IF tok.key # SECRET_KEY \/ tok.exp <= t THEN {FALSE}
    ELSE IF tok.sub = None THEN {TRUE, FALSE}
    ELSE {TRUE}

\* payload.get("sub"): None when the payload has no such claim
payload_get_sub(tok) == IF tok.sub = Absent THEN None ELSE tok.sub

\* decode_access_token: the subject of the payload, or 401, for each outcome
\* of jwt.decode
decode_access_token(tok, t) ==
    { IF ~decoded THEN [status |-> 401, sub |-> None]
      ELSE IF payload_get_sub(tok) = None THEN [status |-> 401, sub |-> None]
      ELSE [status |-> 200, sub |-> tok.sub]
        : decoded \in jwt_decode(tok, t) }

\* db.query(User).filter(User.email == email).first()
find_by_email(email) == {u \in users : u.email = email}

NoUser ==
    [id |-> NULL, name |-> None, email |-> None, password |-> None, role |-> None,
     active |-> FALSE]

\* credentials_exception
Unauthenticated == [status |-> 401, detail |-> "Could not validate credentials", user |-> NoUser]

\* HTTPException(status_code=400, detail="Inactive user")
InactiveUser == [status |-> 400, detail |-> "Inactive user", user |-> NoUser]

\* get_current_user without the active check
get_current_user_no_active_check(tok, t) ==
    { IF ~decoded THEN Unauthenticated
      ELSE IF payload_get_sub(tok) = None THEN Unauthenticated
      ELSE LET found == find_by_email(tok.sub) IN
           IF found = {} THEN Unauthenticated
           ELSE [status |-> 200, detail |-> "", user |-> CHOOSE u \in found : TRUE]
        : decoded \in jwt_decode(tok, t) }

\* get_current_user: resolve the token to a user row, or fail, for each
\* outcome of jwt.decode
get_current_user(tok, t) ==
    { IF ~decoded THEN Unauthenticated
      ELSE IF payload_get_sub(tok) = None THEN Unauthenticated
      ELSE LET found == find_by_email(tok.sub) IN
           IF found = {} THEN Unauthenticated
           ELSE LET user == CHOOSE u \in found : TRUE IN
                IF ~user.active THEN InactiveUser
                ELSE [status |-> 200, detail |-> "", user |-> user]
        : decoded \in jwt_decode(tok, t) }

\* get_current_active_user: get_current_user, then the active check again
get_current_active_user(tok, t) ==
    { IF r.status # 200 THEN r
      ELSE IF ~r.user.active THEN InactiveUser
      ELSE r
        : r \in get_current_user(tok, t) }

-----------------------------------------------------------------------------
(* Tables and queries *)

\* db.query(Project).get(project_id)
project_get(project_id) == {p \in projects : p.id = project_id}

\* Project.project_users: the membership rows whose foreign key is the project
members_of(project_id) ==
    {pu \in project_users : references(pu.project_id, project_id)}

\* Project.documents: the document rows whose foreign key is the project
documents_of(project_id) == {d \in documents : references(d.project_id, project_id)}

\* the rows of a collection in the order of their ids
RECURSIVE ById(_)
ById(rows) ==
    IF rows = {} THEN <<>>
    ELSE LET first == CHOOSE r \in rows : \A q \in rows : r.id <= q.id
         IN  <<first>> \o ById(rows \ {first})

\* the rows of a query without ORDER BY: every order the database may return
Orders(rows) ==
    {s \in [1..Cardinality(rows) -> rows] :
        \A i, j \in 1..Cardinality(rows) : s[i] = s[j] => i = j}

\* a project with its documents loaded, as the reads return it
ProjectView(p) ==
    [project_id |-> p.id, name |-> p.name, logo |-> p.logo, details |-> p.details,
     documents |-> ById(documents_of(p.id))]

\* the urls of a sequence of document rows
Urls(docs) == [i \in 1..Len(docs) |-> docs[i].url]

-----------------------------------------------------------------------------
(* Requests and responses *)

\* the text of a url of the requests: scheme, host and path
url_text(host, path) == "http://" \o host \o path

\* the hosts and the paths of the urls the requests carry
UrlHosts == {"logo", "logo.com", "u1"}
UrlPaths == {"", "/a"}

\* pydantic's HttpUrl: the text is parsed into its parts and read back from
\* them, and a url without a path reads back with the path "/"
HttpUrl(value) ==
    LET parts == CHOOSE hp \in UrlHosts \X UrlPaths : url_text(hp[1], hp[2]) = value
    IN  url_text(parts[1], IF parts[2] = "" THEN "/" ELSE parts[2])

\* ProjectModel(**body): name and details as sent, logo and every document
\* through HttpUrl
ProjectModel(body) ==
    [name |-> body.name,
     logo |-> IF body.logo = None THEN None ELSE HttpUrl(body.logo),
     details |-> body.details,
     documents |-> [i \in 1..Len(body.documents) |-> HttpUrl(body.documents[i])]]

\* the body of no request: name, logo, details, documents (a list of urls)
NoSpec == [name |-> None, logo |-> None, details |-> None, documents |-> <<>>]

\* the place of the token in the record of a request that carries none
NoToken == jwt_encode(None, NULL, None)

\* the record of a request and its response: the status, the detail or
\* message of the body, and the projects the body holds
Response(op, tok, project_id, user_email, spec, status, detail, views) ==
    [op |-> op, token |-> tok, project_id |-> project_id, user_email |-> user_email,
     spec |-> spec, status |-> status, detail |-> detail, projects |-> views]

NoRequest == Response("", NoToken, NULL, None, NoSpec, NULL, "", <<>>)

\* FastAPI serialises a returned (not raised) HTTPException as a 200 body
ReturnedHTTPException(status_code, detail) ==
    [status |-> 200, detail |-> detail]

\* an exception that is no HTTPException: 500 Internal Server Error
InternalServerError == "Internal Server Error"

-----------------------------------------------------------------------------
(* POST /auth *)

\* User(name, email, password=hashed_password, role): active takes its
\* column default, True
new_user(id, name, email, hashed_password, role) ==
    [id |-> id, name |-> name, email |-> email, password |-> hashed_password,
     role |-> role, active |-> TRUE]

\* db.add(db_user); db.commit(): the INSERT draws the next id of the serial and
\* raises on the unique constraint of users.email, the id drawn being lost;
\* the session comes from get_db and is closed on both paths
create_user(name, email, password, role) ==
    LET hashed_password == generate_password_hash(password) IN
    /\ nextUserId <= 3 + MaxUsers
    /\ nextUserId' = nextUserId + 1
    /\ IF find_by_email(email) # {}
       THEN /\ last' = Response("create_user", NoToken, NULL, email, NoSpec,
                                500, InternalServerError, <<>>)
            /\ UNCHANGED users
       ELSE /\ users' = users \cup
                   {new_user(nextUserId, name, email, hashed_password, role)}
            /\ last' = Response("create_user", NoToken, NULL, email, NoSpec,
                                200, "", <<>>)
    /\ UNCHANGED <<projects, project_users, documents, nextProjectId,
                   nextProjectUserId, nextDocumentId, openSessions, now, token,
                   issued, reqs>>

-----------------------------------------------------------------------------
(* POST /projects *)

\* Project(**project.dict()): a list of urls is no list of Document rows, and
\* assigning it to the relationship raises; a logo is an HttpUrl object, which
\* the driver cannot bind to the String column, and db.commit() raises before
\* the INSERT is sent
create_project_raises(spec) == spec.documents # <<>> \/ spec.logo # None

create_project(spec) ==
    LET project == ProjectModel(spec) IN
    /\ nextProjectId <= 1 + MaxCreated
    /\ IF create_project_raises(project)
       THEN /\ openSessions < MaxSessions
            /\ openSessions' = openSessions + 1
            /\ last' = Response("create_project", NoToken, NULL, None, spec,
                                500, InternalServerError, <<>>)
            /\ UNCHANGED db
       ELSE /\ projects' = projects \cup
                   { [id |-> nextProjectId, name |-> project.name,
                      logo |-> project.logo, details |-> project.details] }
            /\ nextProjectId' = nextProjectId + 1
            /\ last' = Response("create_project", NoToken, nextProjectId, None, spec,
                                200, "",
                                << [project_id |-> nextProjectId,
                                    name |-> project.name, logo |-> project.logo,
                                    details |-> project.details,
                                    documents |-> <<>>] >>)
            /\ UNCHANGED <<users, nextUserId, project_users, documents, nextProjectUserId,
                           nextDocumentId, openSessions>>
    /\ UNCHANGED <<now, token, issued, reqs>>

-----------------------------------------------------------------------------
(* GET /project/{project_id}/info *)

\* doc.to_dict() calls inspect, a name main.py never imports: NameError
to_dict_raises(docs) == docs # {}

get_project_info(project_id) ==
    LET found == project_get(project_id) IN
    /\ IF found = {}
       THEN LET r == ReturnedHTTPException(404, "Project not found") IN
            /\ last' = Response("get_project_info", NoToken, project_id, None, NoSpec,
                                r.status, r.detail, <<>>)
            /\ UNCHANGED openSessions
       ELSE LET p == CHOOSE q \in found : TRUE IN
            IF to_dict_raises(documents_of(project_id))
            THEN /\ openSessions < MaxSessions
                 /\ openSessions' = openSessions + 1
                 /\ last' = Response("get_project_info", NoToken, project_id, None,
                                     NoSpec, 500, InternalServerError, <<>>)
            ELSE /\ last' = Response("get_project_info", NoToken, project_id, None,
                                     NoSpec, 200, "", <<ProjectView(p)>>)
                 /\ UNCHANGED openSessions
    /\ UNCHANGED <<db, now, token, issued, reqs>>

-----------------------------------------------------------------------------
(* PUT /project/{project_id}/info *)

\* db_project.documents.append(doc) with doc a url raises, before the commit;
\* a logo is an HttpUrl object, which the driver cannot bind to the String
\* column, and db.commit() raises before the UPDATE is sent
update_project_raises(spec) == spec.documents # <<>> \/ spec.logo # None

\* db_project.documents = []: the rows leave the collection and, with no
\* delete-orphan cascade, keep existing with project_id NULL
clear_documents(project_id) ==
    {IF references(d.project_id, project_id) THEN [d EXCEPT !.project_id = NULL]
     ELSE d
        : d \in documents}

\* the assignments of name, logo and details
updated_project(p, spec) ==
    [p EXCEPT !.name = spec.name, !.logo = spec.logo, !.details = spec.details]

update_project_info(project_id, spec) ==
    LET found == project_get(project_id)
        project_info == ProjectModel(spec) IN
    /\ IF found = {}
       THEN /\ last' = Response("update_project_info", NoToken, project_id, None, spec,
                                404, "Project not found", <<>>)
            /\ UNCHANGED <<db, openSessions>>
       ELSE LET p == CHOOSE q \in found : TRUE IN
            IF update_project_raises(project_info)
            THEN /\ openSessions < MaxSessions
                 /\ openSessions' = openSessions + 1
                 /\ last' = Response("update_project_info", NoToken, project_id, None,
                                     spec, 500, InternalServerError, <<>>)
                 /\ UNCHANGED db
            ELSE /\ projects' = (projects \ {p}) \cup {updated_project(p, project_info)}
                 /\ documents' = clear_documents(project_id)
                 /\ last' = Response("update_project_info", NoToken, project_id, None,
                                     spec, 200, "",
                                     << [project_id |-> p.id,
                                         name |-> project_info.name,
                                         logo |-> project_info.logo,
                                         details |-> project_info.details,
                                         documents |-> <<>>] >>)
                 /\ UNCHANGED <<users, nextUserId, project_users, nextProjectId, nextProjectUserId,
                                nextDocumentId, openSessions>>
    /\ UNCHANGED <<now, token, issued, reqs>>

-----------------------------------------------------------------------------
(* DELETE /projects/{project_id} *)

\* is_member without the comparison with the caller
is_member_any(user_id, project_id) == members_of(project_id) # {}

\* any(current_user.id == project_user.user_id for project_user in project.project_users)
is_member(user_id, project_id) ==
    \E pu \in members_of(project_id) : pu.user_id = user_id

\* db.delete(project) of a parent whose relationships declare no cascade:
\* the ORM first sets the children's foreign key to NULL, then deletes the parent
orphan_project_users(project_id) ==
    {IF references(pu.project_id, project_id) THEN [pu EXCEPT !.project_id = NULL]
     ELSE pu
        : pu \in project_users}

\* orphan_documents leaving the rows as they are
orphan_documents_kept(project_id) == documents

orphan_documents(project_id) ==
    {IF references(d.project_id, project_id) THEN [d EXCEPT !.project_id = NULL]
     ELSE d
        : d \in documents}

\* the status and detail of delete_project, and whether it deletes
delete_project_outcome(auth, project_id) ==
    IF auth.status # 200
    THEN [status |-> auth.status, detail |-> auth.detail, deletes |-> FALSE]
    ELSE IF project_get(project_id) = {}
    THEN [status |-> 404, detail |-> "Project not found", deletes |-> FALSE]
    ELSE IF ~is_member(auth.user.id, project_id)
    THEN [status |-> 403, detail |-> "Not authorized", deletes |-> FALSE]
    ELSE [status |-> 200, detail |-> "Project deleted successfully", deletes |-> TRUE]

delete_project(tok, project_id) ==
    \E auth \in get_current_active_user(tok, now) :
    LET out == delete_project_outcome(auth, project_id) IN
    /\ last' = Response("delete_project", tok, project_id, None, NoSpec,
                        out.status, out.detail, <<>>)
    /\ IF out.deletes
       THEN /\ projects' = projects \ project_get(project_id)
            /\ project_users' = orphan_project_users(project_id)
            /\ documents' = orphan_documents(project_id)
            /\ UNCHANGED <<users, nextUserId, nextProjectId, nextProjectUserId, nextDocumentId>>
       ELSE UNCHANGED db
    /\ UNCHANGED <<openSessions, now, token, issued, reqs>>

-----------------------------------------------------------------------------
(* POST /project/{project_id}/invite *)

\* owner_rows without the is_owner criterion
owner_rows_any_member(project_id, user_id) ==
    {pu \in project_users :
        references(pu.project_id, project_id) /\ pu.user_id = user_id}

\* the first query: the caller's row on the project with is_owner set
owner_rows(project_id, user_id) ==
    {pu \in project_users :
        references(pu.project_id, project_id) /\ pu.user_id = user_id /\ pu.is_owner}

\* member_rows comparing the row id, not the user id
member_rows_by_row_id(project_id, user_id) ==
    {pu \in project_users : references(pu.project_id, project_id) /\ pu.id = user_id}

\* the third query: any row of the target on the project
member_rows(project_id, user_id) ==
    {pu \in project_users :
        references(pu.project_id, project_id) /\ pu.user_id = user_id}

\* new_project_user with the ownership flag set
new_project_user_as_owner(id, user_id, project_id) ==
    [id |-> id, user_id |-> user_id, project_id |-> project_id, is_owner |-> TRUE]

\* ProjectUser(user_id=user.id, project_id=project_id, is_owner=False)
new_project_user(id, user_id, project_id) ==
    [id |-> id, user_id |-> user_id, project_id |-> project_id, is_owner |-> FALSE]

\* insert_project_user under a unique constraint on (user_id, project_id)
insert_project_user_unique(rows, row) ==
    IF \E r \in rows : r.user_id = row.user_id /\ references(r.project_id, row.project_id)
    THEN rows
    ELSE rows \cup {row}

\* db.add(new_project_user); db.commit(): the INSERT; the table declares no
\* unique constraint on (user_id, project_id)
insert_project_user(rows, row) == rows \cup {row}

\* the status and detail of invite_user, and the user it adds (NULL: none)
invite_user_outcome(auth, project_id, user_email) ==
    IF auth.status # 200
    THEN [status |-> auth.status, detail |-> auth.detail, adds |-> NULL]
    ELSE IF owner_rows(project_id, auth.user.id) = {}
    THEN [status |-> 403, detail |-> "Not authorized", adds |-> NULL]
    ELSE LET found == find_by_email(user_email) IN
         IF found = {}
         THEN [status |-> 404, detail |-> "User not found", adds |-> NULL]
         ELSE LET user == CHOOSE u \in found : TRUE IN
              IF member_rows(project_id, user.id) # {}
              THEN [status |-> 400, detail |-> "User is already a member of the project",
                    adds |-> NULL]
              ELSE [status |-> 200, detail |-> "User invited successfully",
                    adds |-> user.id]

invite_user(tok, project_id, user_email) ==
    \E auth \in get_current_active_user(tok, now) :
    LET out == invite_user_outcome(auth, project_id, user_email) IN
    /\ last' = Response("invite_user", tok, project_id, user_email, NoSpec,
                        out.status, out.detail, <<>>)
    /\ IF out.adds # NULL
       THEN /\ project_users' = insert_project_user(project_users,
                   new_project_user(nextProjectUserId, out.adds, project_id))
            /\ nextProjectUserId' = nextProjectUserId + 1
            /\ UNCHANGED <<users, nextUserId, projects, documents, nextProjectId, nextDocumentId>>
       ELSE UNCHANGED db
    /\ UNCHANGED <<openSessions, now, token, issued, reqs>>

-----------------------------------------------------------------------------
(* POST /projects/{project_id}/documents *)

\* upload_file_to_s3: the url of the stored file, or False when the upload
\* raised; False is stored in the String column as 'false'
upload_file_to_s3(filename, stored) ==
    IF stored THEN "https://myapp-prod-documents.s3.amazonaws.com/" \o filename
    ELSE "false"

\* the session of upload_document is never closed; the INSERT violates the
\* foreign key when the project is absent, and the serial is consumed anyway
upload_document(project_id, filename, stored) ==
    LET url == upload_file_to_s3(filename, stored) IN
    /\ nextDocumentId <= MaxDocuments
    /\ openSessions < MaxSessions
    /\ openSessions' = openSessions + 1
    /\ nextDocumentId' = nextDocumentId + 1
    /\ IF project_get(project_id) = {}
       THEN /\ last' = Response("upload_document", NoToken, project_id, None, NoSpec,
                                500, InternalServerError, <<>>)
            /\ UNCHANGED documents
       ELSE /\ documents' = documents \cup
                   { [id |-> nextDocumentId, project_id |-> project_id, url |-> url] }
            /\ last' = Response("upload_document", NoToken, project_id, None, NoSpec,
                                200, url, <<>>)
    /\ UNCHANGED <<users, nextUserId, projects, project_users, nextProjectId, nextProjectUserId,
                   now, token, issued, reqs>>

-----------------------------------------------------------------------------
(* GET /projects, GET /project/{project_id}/documents, GET /project/{project_id} *)

\* db.query(Project).options(joinedload(Project.documents)).all(): the rows in
\* the order the database returns them
get_all_projects(tok) ==
    \E auth \in get_current_user(tok, now), rows \in Orders(projects) :
    /\ IF auth.status # 200
       THEN last' = Response("get_all_projects", tok, NULL, None, NoSpec,
                             auth.status, auth.detail, <<>>)
       ELSE last' = Response("get_all_projects", tok, NULL, None, NoSpec, 200, "",
                             [i \in 1..Len(rows) |-> ProjectView(rows[i])])
    /\ UNCHANGED <<db, openSessions, now, token, issued, reqs>>

get_project_documents(project_id) ==
    /\ IF project_get(project_id) = {}
       THEN /\ last' = Response("get_project_documents", NoToken, project_id, None,
                                NoSpec, 404, "Project not found", <<>>)
            /\ UNCHANGED openSessions
       ELSE IF to_dict_raises(documents_of(project_id))
       THEN /\ openSessions < MaxSessions
            /\ openSessions' = openSessions + 1
            /\ last' = Response("get_project_documents", NoToken, project_id, None,
                                NoSpec, 500, InternalServerError, <<>>)
       ELSE /\ last' = Response("get_project_documents", NoToken, project_id, None,
                                NoSpec, 200, "", <<>>)
            /\ UNCHANGED openSessions
    /\ UNCHANGED <<db, now, token, issued, reqs>>

\* the status, detail and body of get_project
get_project_outcome(auth, project_id) ==
    LET found == project_get(project_id) IN
    IF auth.status # 200
    THEN [status |-> auth.status, detail |-> auth.detail, projects |-> <<>>]
    ELSE IF found = {}
    THEN LET r == ReturnedHTTPException(404, "Project not found") IN
         [status |-> r.status, detail |-> r.detail, projects |-> <<>>]
    ELSE [status |-> 200, detail |-> "",
          projects |-> <<ProjectView(CHOOSE q \in found : TRUE)>>]

get_project(tok, project_id) ==
    \E auth \in get_current_user(tok, now) :
    LET out == get_project_outcome(auth, project_id) IN
    /\ last' = Response("get_project", tok, project_id, None, NoSpec,
                        out.status, out.detail, out.projects)
    /\ UNCHANGED <<db, openSessions, now, token, issued, reqs>>

-----------------------------------------------------------------------------
(* Inputs *)

Emails == {TEST_EMAIL, USER_EMAIL, OWNER_EMAIL, GHOST_EMAIL}

\* the seeded id, the ids create_project can assign, and one never assigned
ProjectIds == 1..(2 + MaxCreated)

Names == {"Test Project", "Updated Project"}
Logos == {None, url_text("logo", ""), url_text("logo.com", "/a")}
Details == {None, "details"}
DocumentLists == {<<>>, <<url_text("u1", "")>>}

ProjectSpecs ==
    [name : Names, logo : Logos, details : Details, documents : DocumentLists]

\* the specs of the access-control runs: the body of the update test, and one
\* with a document
AccessSpecs ==
    { [name |-> "Updated Project", logo |-> None, details |-> None, documents |-> <<>>],
      [name |-> "Updated Project", logo |-> None, details |-> None,
       documents |-> <<url_text("u1", "")>>] }

Filenames == {"f1"}

\* the email POST /auth is sent with: free the first time, taken after it
NewUserEmails == {GHOST_EMAIL}

\* the emails invited: a user without a row, the owner, and an email that is
\* a user only once POST /auth has added it
InviteEmails == {USER_EMAIL, OWNER_EMAIL, GHOST_EMAIL}

\* bearer tokens presented at instant t: one per email, as login issues it
\* (the subject of one is a user only once POST /auth has added it), and one
\* of the owner from a login that has expired
RequestTokens(t) ==
    { create_access_token(e, <<LOGIN_EXPIRE_MINUTES>>, t) : e \in Emails }
    \cup { create_access_token(OWNER_EMAIL, <<LOGIN_EXPIRE_MINUTES>>,
                               t - LOGIN_EXPIRE_MINUTES) }

-----------------------------------------------------------------------------
(* Sequential requests: a request is handled once the response to the one   *)
(* before it has been received                                               *)

NotIssued == [by |-> "", at |-> 0, sub |-> None, expires_delta |-> <<>>]

NoReqs == [r \in 1..2 |->
            [pc |-> "idle", token |-> NoToken, project_id |-> NULL, user_email |-> None,
             caller |-> NULL, caller_active |-> FALSE, target |-> NULL,
             row_id |-> NULL, status |-> NULL]]

Init ==
    /\ users = SeedUsers(TRUE)
    /\ projects = SeedProjects
    /\ project_users = SeedProjectUsers
    /\ documents = {}
    /\ nextUserId = 4
    /\ nextProjectId = 2
    /\ nextProjectUserId = 2
    /\ nextDocumentId = 1
    /\ openSessions = 0
    /\ last = NoRequest
    /\ now = 0
    /\ token = NoToken
    /\ issued = NotIssued
    /\ reqs = NoReqs

\* response = client.get(...): the client takes the response
ReceiveResponse ==
    /\ last # NoRequest
    /\ last' = NoRequest
    /\ UNCHANGED <<db, openSessions, now, token, issued, reqs>>

CreateUser ==
    /\ last = NoRequest
    /\ \E email \in NewUserEmails : create_user("test", email, "test", "test")
CreateProject ==
    /\ last = NoRequest
    /\ \E spec \in AccessSpecs : create_project(spec)
GetProjectInfo ==
    /\ last = NoRequest
    /\ \E project_id \in ProjectIds : get_project_info(project_id)
UpdateProjectInfo ==
    /\ last = NoRequest
    /\ \E project_id \in ProjectIds, spec \in AccessSpecs :
        update_project_info(project_id, spec)
DeleteProject ==
    /\ last = NoRequest
    /\ \E tok \in RequestTokens(now), project_id \in ProjectIds :
        delete_project(tok, project_id)
InviteUser ==
    /\ last = NoRequest
    /\ \E tok \in RequestTokens(now), project_id \in ProjectIds,
          user_email \in InviteEmails :
        invite_user(tok, project_id, user_email)
UploadDocument ==
    /\ last = NoRequest
    /\ \E project_id \in ProjectIds, filename \in Filenames, stored \in BOOLEAN :
        upload_document(project_id, filename, stored)
GetAllProjects ==
    /\ last = NoRequest
    /\ \E tok \in RequestTokens(now) : get_all_projects(tok)
GetProjectDocuments ==
    /\ last = NoRequest
    /\ \E project_id \in ProjectIds : get_project_documents(project_id)
GetProject ==
    /\ last = NoRequest
    /\ \E tok \in RequestTokens(now), project_id \in ProjectIds : get_project(tok, project_id)

Next ==
    \/ CreateUser
    \/ CreateProject
    \/ GetProjectInfo
    \/ UpdateProjectInfo
    \/ DeleteProject
    \/ InviteUser
    \/ UploadDocument
    \/ GetAllProjects
    \/ GetProjectDocuments
    \/ GetProject
    \/ ReceiveResponse

Spec == Init /\ [][Next]_vars

-----------------------------------------------------------------------------
(* Deactivated accounts: the endpoints behind get_current_user, run from a  *)
(* users table in which the account of test@test.com is active or not       *)

InitAccounts ==
    /\ \E testActive \in BOOLEAN : users = SeedUsers(testActive)
    /\ projects = SeedProjects
    /\ project_users = SeedProjectUsers
    /\ documents = {}
    /\ nextUserId = 4
    /\ nextProjectId = 2
    /\ nextProjectUserId = 2
    /\ nextDocumentId = 1
    /\ openSessions = 0
    /\ last = NoRequest
    /\ now = 0
    /\ token = NoToken
    /\ issued = NotIssued
    /\ reqs = NoReqs

NextAccounts ==
    \/ CreateUser
    \/ CreateProject
    \/ DeleteProject
    \/ InviteUser
    \/ GetAllProjects
    \/ GetProject
    \/ ReceiveResponse

SpecAccounts == InitAccounts /\ [][NextAccounts]_vars

-----------------------------------------------------------------------------
(* Token service runs: tokens are issued, time passes, tokens are validated *)

\* POST /login
login(username, password) ==
    LET found == find_by_email(username)
        ok == /\ found # {}
              /\ check_password_hash((CHOOSE u \in found : TRUE).password, password)
    IN
    /\ IF ~ok
       THEN /\ last' = Response("login", NoToken, NULL, username, NoSpec,
                                400, "Incorrect username or password", <<>>)
            /\ UNCHANGED <<token, issued>>
       ELSE LET access_token ==
                    create_access_token(username, <<LOGIN_EXPIRE_MINUTES>>, now) IN
            /\ token' = access_token
            /\ issued' = [by |-> "login", at |-> now, sub |-> username,
                          expires_delta |-> <<LOGIN_EXPIRE_MINUTES>>]
            /\ last' = Response("login", access_token, NULL, username, NoSpec,
                                200, "bearer", <<>>)
    /\ UNCHANGED <<db, openSessions, now, reqs>>

\* a call of create_access_token(data={"sub": sub}, expires_delta)
call_create_access_token(sub, expires_delta) ==
    LET access_token == create_access_token(sub, expires_delta, now) IN
    /\ token' = access_token
    /\ issued' = [by |-> "create_access_token", at |-> now, sub |-> sub,
                  expires_delta |-> expires_delta]
    /\ last' = Response("create_access_token", access_token, NULL, None, NoSpec,
                        NULL, "", <<>>)
    /\ UNCHANGED <<db, openSessions, now, reqs>>

\* a call of generate_jwt(user)
call_generate_jwt(user) ==
    LET jwt_token == generate_jwt(user, now) IN
    /\ token' = jwt_token
    /\ issued' = [by |-> "generate_jwt", at |-> now, sub |-> Absent,
                  expires_delta |-> <<GENERATE_JWT_EXPIRE_MINUTES>>]
    /\ last' = Response("generate_jwt", jwt_token, NULL, None, NoSpec, NULL, "", <<>>)
    /\ UNCHANGED <<db, openSessions, now, reqs>>

\* the claims of the token under a signature of another key
forge(tok) ==
    /\ tok.key = SECRET_KEY
    /\ token' = jwt_encode(tok.sub, tok.exp, OTHER_KEY)
    /\ last' = Response("forge", token', NULL, None, NoSpec, NULL, "", <<>>)
    /\ UNCHANGED <<db, openSessions, now, issued, reqs>>

\* a call of decode_access_token(token)
call_decode_access_token(tok) ==
    \E r \in decode_access_token(tok, now) :
    /\ last' = Response("decode_access_token", tok, NULL, r.sub, NoSpec, r.status,
                        IF r.status = 200 THEN "" ELSE Unauthenticated.detail, <<>>)
    /\ UNCHANGED <<db, openSessions, now, token, issued, reqs>>

Passwords == {"test", "wrong"}
Subjects == {OWNER_EMAIL, GHOST_EMAIL, None}
Deltas == {<<>>, <<0>>, <<1>>, <<LOGIN_EXPIRE_MINUTES>>}

Tick ==
    /\ last = NoRequest
    /\ now < MaxTime
    /\ now' = now + 1
    /\ UNCHANGED <<db, openSessions, last, token, issued, reqs>>

Login ==
    /\ last = NoRequest
    /\ \E username \in Emails, password \in Passwords : login(username, password)
CreateAccessToken ==
    /\ last = NoRequest
    /\ \E sub \in Subjects, expires_delta \in Deltas :
        call_create_access_token(sub, expires_delta)
GenerateJwt ==
    /\ last = NoRequest
    /\ \E user \in users : call_generate_jwt(user)
Forge ==
    /\ last = NoRequest
    /\ token # NoToken
    /\ forge(token)
DecodeAccessToken ==
    /\ last = NoRequest
    /\ token # NoToken
    /\ call_decode_access_token(token)
GetAllProjectsWithToken ==
    /\ last = NoRequest
    /\ token # NoToken
    /\ get_all_projects(token)

NextToken ==
    \/ Tick
    \/ CreateUser
    \/ Login
    \/ CreateAccessToken
    \/ GenerateJwt
    \/ Forge
    \/ DecodeAccessToken
    \/ GetAllProjectsWithToken
    \/ ReceiveResponse

SpecToken == Init /\ [][NextToken]_vars

-----------------------------------------------------------------------------
(* Round trips: create, then upload, then update, then read *)

RtCreate ==
    /\ last = NoRequest
    /\ \E spec \in ProjectSpecs : create_project(spec)
RtUpload ==
    /\ last.op = "create_project"
    /\ last.status = 200
    /\ \E filename \in Filenames, stored \in BOOLEAN :
        upload_document(last.project_id, filename, stored)
RtUpdate ==
    /\ last.op \in {"create_project", "upload_document"}
    /\ \E project_id \in ProjectIds, spec \in ProjectSpecs :
        update_project_info(project_id, spec)
RtGetProjectInfo ==
    /\ last.op = "update_project_info"
    /\ get_project_info(last.project_id)
RtGetProject ==
    /\ last.op = "update_project_info"
    /\ get_project(create_access_token(OWNER_EMAIL, <<LOGIN_EXPIRE_MINUTES>>, now),
                   last.project_id)

NextRoundTrip ==
    \/ RtCreate
    \/ RtUpload
    \/ RtUpdate
    \/ RtGetProjectInfo
    \/ RtGetProject

SpecRoundTrip == Init /\ [][NextRoundTrip]_vars

-----------------------------------------------------------------------------
(* Interleaved invites: two invite_user requests, each in its own session,  *)
(* run step by step against the committed tables                             *)

Requests == {1, 2}

\* get_db: SessionLocal() opens the session of the request
invite_begin(r, tok, project_id, user_email) ==
    /\ reqs[r].pc = "idle"
    /\ reqs' = [reqs EXCEPT ![r] =
                 [pc |-> "get_current_user", token |-> tok, project_id |-> project_id,
                  user_email |-> user_email, caller |-> NULL, caller_active |-> FALSE,
                  target |-> NULL, row_id |-> NULL, status |-> NULL]]
    /\ openSessions' = openSessions + 1
    /\ UNCHANGED <<db, last, now, token, issued>>

\* get_current_user: the token is decoded and the caller's row is read
invite_get_current_user(r) ==
    /\ reqs[r].pc = "get_current_user"
    /\ \E auth \in get_current_user(reqs[r].token, now) :
          reqs' = [reqs EXCEPT ![r] =
                    IF auth.status # 200
                    THEN [@ EXCEPT !.pc = "close", !.status = auth.status]
                    ELSE [@ EXCEPT !.pc = "get_current_active_user",
                                   !.caller = auth.user.id,
                                   !.caller_active = auth.user.active]]
    /\ UNCHANGED <<db, openSessions, last, now, token, issued>>

\* get_current_active_user: the active check on the row that was read
invite_get_current_active_user(r) ==
    /\ reqs[r].pc = "get_current_active_user"
    /\ reqs' = [reqs EXCEPT ![r] =
                 IF ~reqs[r].caller_active
                 THEN [@ EXCEPT !.pc = "close", !.status = InactiveUser.status]
                 ELSE [@ EXCEPT !.pc = "owner_check"]]
    /\ UNCHANGED <<db, openSessions, last, now, token, issued>>

\* the first query and the 403
invite_owner_check(r) ==
    /\ reqs[r].pc = "owner_check"
    /\ reqs' = [reqs EXCEPT ![r] =
                 IF owner_rows(reqs[r].project_id, reqs[r].caller) = {}
                 THEN [@ EXCEPT !.pc = "close", !.status = 403]
                 ELSE [@ EXCEPT !.pc = "find_user"]]
    /\ UNCHANGED <<db, openSessions, last, now, token, issued>>

\* the second query and the 404
invite_find_user(r) ==
    LET found == find_by_email(reqs[r].user_email) IN
    /\ reqs[r].pc = "find_user"
    /\ reqs' = [reqs EXCEPT ![r] =
                 IF found = {}
                 THEN [@ EXCEPT !.pc = "close", !.status = 404]
                 ELSE [@ EXCEPT !.pc = "member_check",
                                !.target = (CHOOSE u \in found : TRUE).id]]
    /\ UNCHANGED <<db, openSessions, last, now, token, issued>>

\* the third query and the 400
invite_member_check(r) ==
    /\ reqs[r].pc = "member_check"
    /\ reqs' = [reqs EXCEPT ![r] =
                 IF member_rows(reqs[r].project_id, reqs[r].target) # {}
                 THEN [@ EXCEPT !.pc = "close", !.status = 400]
                 ELSE [@ EXCEPT !.pc = "add"]]
    /\ UNCHANGED <<db, openSessions, last, now, token, issued>>

\* db.add(new_project_user): the row is pending in the request's session
invite_add(r) ==
    /\ reqs[r].pc = "add"
    /\ reqs' = [reqs EXCEPT ![r] = [@ EXCEPT !.pc = "flush"]]
    /\ UNCHANGED <<db, openSessions, last, now, token, issued>>

\* db.commit(), first half: the flush sends the INSERT, which draws the id of
\* the row from the serial; the row stays invisible to the other session
invite_flush(r) ==
    /\ reqs[r].pc = "flush"
    /\ nextProjectUserId' = nextProjectUserId + 1
    /\ reqs' = [reqs EXCEPT ![r] =
                 [@ EXCEPT !.pc = "commit", !.row_id = nextProjectUserId]]
    /\ UNCHANGED <<users, nextUserId, projects, project_users, documents,
                   nextProjectId, nextDocumentId, openSessions, last, now, token,
                   issued>>

\* db.commit(), second half: COMMIT publishes the row; the handler returns
\* its 200
invite_commit(r) ==
    /\ reqs[r].pc = "commit"
    /\ project_users' = insert_project_user(project_users,
            new_project_user(reqs[r].row_id, reqs[r].target, reqs[r].project_id))
    /\ reqs' = [reqs EXCEPT ![r] = [@ EXCEPT !.pc = "close", !.status = 200]]
    /\ UNCHANGED <<users, nextUserId, projects, documents, nextProjectId,
                   nextProjectUserId, nextDocumentId, openSessions, last, now, token,
                   issued>>

\* get_db's finally: db.close(), a call of its own once the handler has
\* returned or raised
invite_close(r) ==
    /\ reqs[r].pc = "close"
    /\ reqs' = [reqs EXCEPT ![r] = [@ EXCEPT !.pc = "done"]]
    /\ openSessions' = openSessions - 1
    /\ UNCHANGED <<db, last, now, token, issued>>

\* the tokens of the interleaved runs: the owner's, a non-owner's, and one
\* whose subject is no user
RaceTokens(t) ==
    { create_access_token(e, <<LOGIN_EXPIRE_MINUTES>>, t)
        : e \in {OWNER_EMAIL, USER_EMAIL, GHOST_EMAIL} }

InviteBegin ==
    \E r \in Requests, tok \in RaceTokens(now), project_id \in ProjectIds,
       user_email \in Emails :
        invite_begin(r, tok, project_id, user_email)
InviteGetCurrentUser == \E r \in Requests : invite_get_current_user(r)
InviteGetCurrentActiveUser == \E r \in Requests : invite_get_current_active_user(r)
InviteOwnerCheck == \E r \in Requests : invite_owner_check(r)
InviteFindUser == \E r \in Requests : invite_find_user(r)
InviteMemberCheck == \E r \in Requests : invite_member_check(r)
InviteAdd == \E r \in Requests : invite_add(r)
InviteFlush == \E r \in Requests : invite_flush(r)
InviteCommit == \E r \in Requests : invite_commit(r)
InviteClose == \E r \in Requests : invite_close(r)

NextRace ==
    \/ InviteBegin
    \/ InviteGetCurrentUser
    \/ InviteGetCurrentActiveUser
    \/ InviteOwnerCheck
    \/ InviteFindUser
    \/ InviteMemberCheck
    \/ InviteAdd
    \/ InviteFlush
    \/ InviteCommit
    \/ InviteClose

SpecRace == Init /\ [][NextRace]_vars

-----------------------------------------------------------------------------
(* Vocabulary of the properties *)

\* the token is signed by the server, unexpired and carries a subject
ValidToken(tok) ==
    tok.key = SECRET_KEY /\ tok.exp > now /\ tok.sub \notin {None, Absent}

\* the token is that of an authenticated, active caller
ActiveCaller(tok) ==
    ValidToken(tok) /\ \E u \in users : u.email = tok.sub /\ u.active

\* the id of the user the token names
CallerId(tok) == (CHOOSE u \in users : u.email = tok.sub).id

ProjectExists(project_id) == \E p \in projects : p.id = project_id

HasRow(user_id, project_id) ==
    \E pu \in project_users : pu.user_id = user_id /\ references(pu.project_id, project_id)

HasOwnerRow(user_id, project_id) ==
    \E pu \in project_users :
        pu.user_id = user_id /\ references(pu.project_id, project_id) /\ pu.is_owner

TablesUnchanged ==
    projects' = projects /\ project_users' = project_users /\ documents' = documents

\* a request of the endpoint is answered in this step
Answers(op) == last'.op = op /\ last' # last

-----------------------------------------------------------------------------
(* Properties *)

\* C1: an invite by an authenticated, active caller without an is_owner row
\* on the project ends 403 and adds no membership row; a row is added to a
\* project only by an invite of a caller who holds an is_owner row on it.
NonOwnerInviteForbidden ==
    [][ /\ ( /\ Answers("invite_user")
             /\ ActiveCaller(last'.token)
             /\ ~HasOwnerRow(CallerId(last'.token), last'.project_id) )
           => (last'.status = 403 /\ project_users' = project_users)
        /\ \A pu \in project_users' \ project_users :
              pu.project_id # NULL
              => ( /\ Answers("invite_user")
                   /\ pu.project_id = last'.project_id
                   /\ ActiveCaller(last'.token)
                   /\ HasOwnerRow(CallerId(last'.token), last'.project_id) )
      ]_vars

\* C1 witness: a member whose row has is_owner false has invited and got 403
NonOwnerMemberGot403 ==
    /\ last.op = "invite_user"
    /\ last.status = 403
    /\ ActiveCaller(last.token)
    /\ HasRow(CallerId(last.token), last.project_id)
    /\ ~HasOwnerRow(CallerId(last.token), last.project_id)

NoDuplicateMembership ==
    \A a, b \in project_users :
        (a.project_id # NULL /\ a.project_id = b.project_id /\ a.user_id = b.user_id)
        => a = b

\* C2: with requests one at a time, an owner's invite of a user who has a row
\* on the project ends 400 and leaves the membership table as it was; an
\* invite that succeeds adds exactly one row, of the target on the project,
\* with is_owner false; and no (user, project) pair gets a second row.
SequentialInviteNoDuplicate ==
    [][ /\ ( /\ Answers("invite_user")
             /\ ActiveCaller(last'.token)
             /\ HasOwnerRow(CallerId(last'.token), last'.project_id)
             /\ \E u \in users : /\ u.email = last'.user_email
                                 /\ HasRow(u.id, last'.project_id) )
           => (last'.status = 400 /\ project_users' = project_users)
        /\ (Answers("invite_user") /\ last'.status = 200)
           => \E u \in users, pu \in project_users' :
                 /\ u.email = last'.user_email
                 /\ pu \notin project_users
                 /\ project_users' = project_users \cup {pu}
                 /\ pu.user_id = u.id
                 /\ pu.project_id = last'.project_id
                 /\ pu.is_owner = FALSE
        /\ NoDuplicateMembership => NoDuplicateMembership'
      ]_vars

\* C2 witness: a user invited before is invited again by the owner and the
\* answer is 400
InvitedTwiceGot400 ==
    /\ last.op = "invite_user"
    /\ last.status = 400
    /\ last.detail = "User is already a member of the project"
    /\ \E u \in users, pu \in project_users :
          /\ u.email = last.user_email
          /\ pu.user_id = u.id /\ pu.project_id = last.project_id /\ ~pu.is_owner

\* the project is absent and no membership or document row references it
NothingReferences(project_id) ==
    /\ \A p \in projects : p.id # project_id
    /\ \A pu \in project_users : pu.project_id # project_id
    /\ \A d \in documents : d.project_id # project_id

\* C3: after delete_project(P) has succeeded the project is absent and no
\* membership row and no document row references P, whatever the state the
\* delete was issued in; the same holds of every id that was deleted.
DeleteLeavesNoReference ==
    /\ (last.op = "delete_project" /\ last.status = 200)
       => NothingReferences(last.project_id)
    /\ \A project_id \in 1..(nextProjectId - 1) :
          ~ProjectExists(project_id) => NothingReferences(project_id)

\* C3 witness: a project with two membership rows and a document was deleted
DeletedWithMembersAndDocument ==
    /\ last.op = "delete_project"
    /\ last.status = 200
    /\ Cardinality({pu \in project_users : pu.project_id = NULL}) >= 2
    /\ \E d \in documents : d.project_id = NULL

\* C4: a delete by an authenticated, active caller ends 404 when the project
\* does not exist and 403 when it exists and the caller has no membership row
\* on it, and in both cases the three tables are unchanged; a project is
\* removed only by a caller with a membership row on it.
DeleteNeedsMembership ==
    [][ /\ ( /\ Answers("delete_project")
             /\ ActiveCaller(last'.token)
             /\ ~ProjectExists(last'.project_id) )
           => (last'.status = 404 /\ TablesUnchanged)
        /\ ( /\ Answers("delete_project")
             /\ ActiveCaller(last'.token)
             /\ ProjectExists(last'.project_id)
             /\ ~HasRow(CallerId(last'.token), last'.project_id) )
           => (last'.status = 403 /\ TablesUnchanged)
        /\ \A p \in projects \ projects' :
              \/ \E q \in projects' : q.id = p.id
              \/ /\ Answers("delete_project")
                 /\ last'.project_id = p.id
                 /\ ActiveCaller(last'.token)
                 /\ HasRow(CallerId(last'.token), p.id)
      ]_vars

\* C4 witness: a caller without a row on an existing project that has a
\* document got 403
NonMemberDeleteGot403 ==
    /\ last.op = "delete_project"
    /\ last.status = 403
    /\ ProjectExists(last.project_id)
    /\ \E d \in documents : d.project_id = last.project_id

GuardedEndpoints == {"get_all_projects", "get_project", "delete_project", "invite_user"}

\* C6: on every endpoint guarded by get_current_user, a validly signed,
\* unexpired token whose subject is no user is answered 401, and one whose
\* subject is an inactive user is answered 400 "Inactive user", which is not
\* the 401 answer; the answer is the same whether or not the project exists,
\* and no table changes.
UnknownOrInactiveRejected ==
    [][ /\ ( /\ \E op \in GuardedEndpoints : Answers(op)
             /\ ValidToken(last'.token)
             /\ \A u \in users : u.email # last'.token.sub )
           => ( /\ last'.status = 401
                /\ last'.detail = "Could not validate credentials"
                /\ TablesUnchanged )
        /\ ( /\ \E op \in GuardedEndpoints : Answers(op)
             /\ ValidToken(last'.token)
             /\ \E u \in users : u.email = last'.token.sub /\ ~u.active )
           => ( /\ last'.status = 400
                /\ last'.detail = "Inactive user"
                /\ last'.status # Unauthenticated.status
                /\ TablesUnchanged )
      ]_vars

\* C6 witness: an inactive user asked for an existing project and got 400
InactiveGot400 ==
    /\ last.op = "get_project"
    /\ last.status = 400
    /\ last.detail = "Inactive user"
    /\ ValidToken(last.token)
    /\ ProjectExists(last.project_id)

\* C7: an authenticated GET of a project id that is absent from the project
\* table, and so of every project that was deleted, is answered 404 and never
\* with a success status.
GetAbsentProjectIs404 ==
    ( /\ \/ last.op = "get_project" /\ ActiveCaller(last.token)
         \/ last.op = "get_project_info"
      /\ ~ProjectExists(last.project_id) )
    => last.status = 404

\* C8: an invite by an authenticated, active caller on a project id that does
\* not exist is answered 404, not 403.
InviteAbsentProjectIs404 ==
    ( /\ last.op = "invite_user"
      /\ ActiveCaller(last.token)
      /\ ~ProjectExists(last.project_id) )
    => last.status = 404

\* the lifetime the token of the run was asked with
Lifetime ==
    IF issued.expires_delta = <<>> THEN DEFAULT_EXPIRE_MINUTES
    ELSE issued.expires_delta[1]

\* C5: a token of login or create_access_token, issued at t for subject S
\* with lifetime d (15 minutes when none is given), validates to S at every
\* instant before t+d and is rejected 401 at every instant after t+d; a token
\* signed with another key or without a subject is rejected at every instant.
TokenValidWithinLifetime ==
    [][ ( /\ Answers("decode_access_token")
          /\ issued.by \in {"login", "create_access_token"} )
        => /\ ( /\ token.key = SECRET_KEY
                /\ issued.sub # None
                /\ now < issued.at + Lifetime )
              => (last'.status = 200 /\ last'.user_email = issued.sub)
           /\ (now > issued.at + Lifetime) => last'.status = 401
           /\ (token.key # SECRET_KEY \/ issued.sub = None) => last'.status = 401
      ]_vars

\* C9: after create_project(s) has assigned id and update_project_info(id, s')
\* was called, a read of id returns name, logo, details and documents equal to those
\* of s', with none of the former documents left; update_project_info on an
\* absent id ends 404 and changes nothing.
RoundTripReturnsUpdate ==
    [][ /\ ( /\ last.op = "update_project_info"
             /\ last.project_id \in 2..(nextProjectId - 1)
             /\ ProjectExists(last.project_id)
             /\ Answers("get_project_info") \/ Answers("get_project")
             /\ last'.project_id = last.project_id )
           => ( /\ last'.status = 200
                /\ Len(last'.projects) = 1
                /\ last'.projects[1].name = last.spec.name
                /\ last'.projects[1].logo = last.spec.logo
                /\ last'.projects[1].details = last.spec.details
                /\ Urls(last'.projects[1].documents) = last.spec.documents )
        /\ (Answers("update_project_info") /\ ~ProjectExists(last'.project_id))
           => (last'.status = 404 /\ TablesUnchanged)
      ]_vars

\* the rows of a user on a project
RowsOf(user_id, project_id) ==
    {pu \in project_users : pu.user_id = user_id /\ references(pu.project_id, project_id)}

\* both requests invited the same user to the same project and both ended 200
BothInvitesSucceeded ==
    /\ \A r \in Requests : reqs[r].pc = "done" /\ reqs[r].status = 200
    /\ reqs[1].project_id = reqs[2].project_id
    /\ reqs[1].target = reqs[2].target

\* C10: when two interleaved invites of the same user to the same project
\* have both passed the already-member check before either commits, nothing
\* stops either commit: both end 200 and the pair has two membership rows.
RaceAddsDuplicateRow ==
    /\ BothInvitesSucceeded
       => Cardinality(RowsOf(reqs[1].target, reqs[1].project_id)) = 2
    /\ \A r \in Requests :
          (reqs[r].pc = "done" /\ reqs[r].status = 200)
          => RowsOf(reqs[r].target, reqs[r].project_id) # {}

\* C10 witness: both invites ended 200 and the pair has two rows
DuplicateRowReached ==
    /\ BothInvitesSucceeded
    /\ Cardinality(RowsOf(reqs[1].target, reqs[1].project_id)) = 2

\* C11: every session a handler opens is closed when the handler returns or
\* raises, so after any sequence of answered requests no session is open.
AllSessionsClosed == openSessions = 0

\* the is_owner rows of a project
OwnerRowsOf(project_id) ==
    {pu \in project_users : references(pu.project_id, project_id) /\ pu.is_owner}

\* the ids create_project has assigned: the seeded project has id 1
CreatedIds == 2..(nextProjectId - 1)

\* no endpoint adds an is_owner row, and a project of create_project has no
\* membership row, now and after the step
NoOwnerRowAdded ==
    /\ \A project_id \in 1..(nextProjectId' - 1) :
          OwnerRowsOf(project_id)' \subseteq OwnerRowsOf(project_id)
    /\ \A pu \in project_users' \ project_users :
          pu.project_id # NULL => ~pu.is_owner
    /\ \A project_id \in CreatedIds' : members_of(project_id)' = {}

\* the token names a user: it validates and its subject is the email of a row
NamesUser(tok) == ValidToken(tok) /\ \E u \in users : u.email = tok.sub

\* C12 as amended: no endpoint adds an is_owner row, so the owner rows of a
\* project never grow; a project of create_project never has a membership
\* row, and every invite_user and delete_project on it ends 403 when the
\* caller is authenticated and active, and 401 when the token does not
\* validate or names no user; in both cases no table changes.
CreatedProjectAlwaysForbidden ==
    [][ /\ NoOwnerRowAdded
        /\ ( /\ Answers("invite_user") \/ Answers("delete_project")
             /\ last'.project_id \in CreatedIds
             /\ ActiveCaller(last'.token) )
           => (last'.status = 403 /\ TablesUnchanged)
        /\ ( /\ Answers("invite_user") \/ Answers("delete_project")
             /\ last'.project_id \in CreatedIds
             /\ ~NamesUser(last'.token) )
           => ( /\ last'.status = 401
                /\ last'.detail = "Could not validate credentials"
                /\ TablesUnchanged )
      ]_vars

\* C12 witness: the owner of the seeded project asked to delete a project of
\* create_project and got 403
OwnerElsewhereGot403 ==
    /\ last.op = "delete_project"
    /\ last.status = 403
    /\ last.project_id \in CreatedIds
    /\ ProjectExists(last.project_id)
    /\ ActiveCaller(last.token)
    /\ HasOwnerRow(CallerId(last.token), 1)

\* C12 as stated: the same, with 403 for every caller, whatever the token
CreatedProjectForbiddenForAnyCaller ==
    [][ /\ NoOwnerRowAdded
        /\ ( /\ Answers("invite_user") \/ Answers("delete_project")
             /\ last'.project_id \in CreatedIds )
           => last'.status = 403
      ]_vars

====
